---- MODULE Spec2Model ----
(***************************************************************************)
(* Medical-Chatbot: the multi-tenant document ingestion pipeline           *)
(* (backend/app/services/document_service.py, driven by the routes of      *)
(* backend/app/api/routes/documents.py), the Pinecone vector index         *)
(* (backend/app/core/vector_store.py) and the query path                   *)
(* (backend/app/services/chatbot_service.py, core/query_engine.py,         *)
(* api/routes/chat.py).                                                    *)
(*                                                                         *)
(* The handlers are asyncio coroutines: a handler runs without             *)
(* interruption between two awaits, and other requests run at every await. *)
(* Each action below is one such uninterrupted stretch, ending at the      *)
(* database operation it awaits.  Every awaited database or GridFS         *)
(* operation inside process_document may raise (the code wraps them in     *)
(* try/except), which the actions model as a nondeterministic outcome.     *)
(***************************************************************************)
EXTENDS Integers, Sequences, FiniteSets, TLC

VARIABLES
    documents,   \* db.documents: document id -> record, or NoDocument
    index,       \* the Pinecone index: namespace -> set of stored vectors
    runs,        \* process_document calls in progress: run id -> frame
    started,     \* number of process_document calls made so far
    svc,         \* the ChatbotService singleton's fields
    response,    \* the last HTTP response sent by a route, or the result
                 \* of the last call an operator's script made
    indexes,     \* the Pinecone project: index name -> index, or NoIndex
    tempfiles    \* the temporary files on disk, each named by the call of
                 \* process_document that created it

vars == <<documents, index, runs, started, svc, response, indexes, tempfiles>>

----------------------------------------------------------------------------
(* Bounds of the model *)

MaxDocs == 2
MaxRuns == 3

----------------------------------------------------------------------------
(* Values *)

\* Python's None
None == "None"

\* Tenant ids (str(current_user.id)); an anonymous caller has identity None.
Tenants == {"a", "b"}
Callers == Tenants \cup {None}

DocIds == 1 .. MaxDocs
RunIds == 1 .. MaxRuns

NoDocument == [absent |-> TRUE]

\* settings.allowed_extensions
AllowedExtensions == {"pdf", "docx", "xlsx", "txt", "doc", "xls"}

\* File extensions a client may send: one with a loader, one not allowed.
FileExtensions == {"txt", "exe"}

\* A value of settings.allowed_extensions_list other than the default, read
\* from the environment: it also admits .bin files.
ConfiguredExtensions == AllowedExtensions \cup {"bin"}

\* settings.chunk_size, settings.chunk_overlap
ChunkSize == 500
ChunkOverlap == 20

\* The text of an uploaded file, as the loader hands it to the splitter: the
\* lengths (in characters) of its paragraphs, which are runs of characters
\* other than whitespace with a blank line ("\n\n") between one and the
\* next.  <<>> is the empty file, <<700>> 700 characters without a break,
\* <<0, 0>> a file that holds one blank line and nothing else.
Texts == {<<>>, <<700>>}

\* A short text (2 chunks) and one long enough for three upload calls (209
\* chunks).
BatchTexts == {<<700>>, <<100000>>}

\* The texts the splitter is tried on: with and without paragraph breaks.
SplitTexts ==
    {<<>>, <<15>>, <<700>>, <<1200>>, <<0, 0>>, <<300, 300, 300>>,
     <<600, 100>>}

\* The namespace an anonymous query reads (chatbot_service.py line 131).
DefaultNamespace == ""

\* The namespace setup_free_tier.py populates.
FREE_NAMESPACE == "free_users"

\* batch_size of setup_vector_store
BatchSize == 100

\* settings.pinecone_index_name and settings.pinecone_dimension.
PineconeIndexName == "medical-chatbot"
PineconeDimension == 384

\* A name pc.list_indexes() does not list.
NoIndex == [absent |-> TRUE]

\* The index names of the Pinecone project: the deployment's and one more.
IndexNames == {PineconeIndexName, "medical-chatbot-dev"}

\* dimension_map of get_embedding_dimension.
KnownModels ==
    {"sentence-transformers/all-MiniLM-L6-v2",
     "sentence-transformers/all-mpnet-base-v2",
     "sentence-transformers/paraphrase-multilingual-MiniLM-L12-v2"}

\* The model identifiers the model asks about: the known ones and two that
\* the table does not hold.
ModelNames == KnownModels \cup {"BAAI/bge-large-en-v1.5", "all-MiniLM-L6"}

\* The dimensions create_index is called with.
Dimensions == {384, 768, 1024}

----------------------------------------------------------------------------
(* Pure helpers *)

\* ObjectId equality in the find_one / update_one filters
\* {"_id": ..., "user_id": ObjectId(str(current_user.id))}.
Owns_AnyTenant(t, d) == documents[d] # NoDocument

Owns(t, d) == documents[d] # NoDocument /\ documents[d].user_id = t

\* The namespace ChatbotService.query reads for a caller: `if user_id:` is
\* false for None and for the empty string.
QueryNamespace_Anonymous(user_id) == DefaultNamespace

QueryNamespace_FreeTier(user_id) ==
    IF user_id = None \/ user_id = ""
    THEN FREE_NAMESPACE
    ELSE "user_" \o user_id

QueryNamespace(user_id) ==
    IF user_id = None \/ user_id = ""
    THEN DefaultNamespace
    ELSE "user_" \o user_id

\* The namespace process_document writes for the user it was called for.
IngestNamespace_Default(user_id) == DefaultNamespace

IngestNamespace(user_id) == "user_" \o user_id

\* The partitions of the index the model keeps.
Namespaces ==
    {DefaultNamespace, FREE_NAMESPACE} \cup {"user_" \o t : t \in Tenants}

\* len(text): the paragraphs and the two characters of every break.
RECURSIVE TextLength(_)
TextLength(text) ==
    IF text = <<>> THEN 0
    ELSE IF Len(text) = 1 THEN text[1]
    ELSE text[1] + 2 + TextLength(Tail(text))

\* RecursiveCharacterTextSplitter on L > 0 characters that hold none of its
\* separators but the last (""): the characters are merged into windows of
\* ChunkSize characters that start every ChunkSize - ChunkOverlap
\* characters, the last window being the first one that reaches the end of
\* the text.  The lengths of the windows, in order.
Windows(L) ==
    LET stride == ChunkSize - ChunkOverlap
        start(j) == (j - 1) * stride
        last == CHOOSE k \in 1 .. L :
                    /\ start(k) + ChunkSize >= L
                    /\ (k = 1 \/ start(k - 1) + ChunkSize < L)
    IN  [j \in 1 .. last |->
            IF j < last THEN ChunkSize ELSE L - start(j)]

\* The splits of a text at its first separator, "\n\n", which stays at the
\* head of the split that follows it; empty splits are dropped.  A split is
\* blank when it holds whitespace only.
ParagraphSplits(text) ==
    LET split(i) == IF i = 1
                    THEN [len |-> text[i], blank |-> FALSE, sep |-> 0]
                    ELSE [len |-> 2 + text[i], blank |-> text[i] = 0,
                          sep |-> 2]
        all == [i \in 1 .. Len(text) |-> split(i)]
    IN  IF text # <<>> /\ text[1] = 0 THEN Tail(all) ELSE all

\* The characters of the splits in current_doc.
RECURSIVE Total(_)
Total(current_doc) ==
    IF current_doc = <<>> THEN 0
    ELSE current_doc[1].len + Total(Tail(current_doc))

\* _join_docs: the joined splits with the whitespace at both ends stripped,
\* or nothing when only whitespace was joined.  (A chunk is kept by the
\* length it had before the strip.)
JoinDocs(current_doc) ==
    IF \A i \in 1 .. Len(current_doc) : current_doc[i].blank
    THEN <<>>
    ELSE <<Total(current_doc)>>

\* The while loop of _merge_splits: drop splits from the head of current_doc
\* until what is left fits the overlap and leaves room for the next split.
RECURSIVE DropHead(_, _)
DropHead(current_doc, len) ==
    IF \/ Total(current_doc) > ChunkOverlap
       \/ (Total(current_doc) + len > ChunkSize /\ Total(current_doc) > 0)
    THEN DropHead(Tail(current_doc), len)
    ELSE current_doc

\* _merge_splits(splits, ""), from split i on with current_doc collected so
\* far: splits are joined while they fit ChunkSize; a chunk that is full is
\* emitted and its tail, at most ChunkOverlap characters, starts the next.
RECURSIVE MergeSplits(_, _, _)
MergeSplits(splits, i, current_doc) ==
    IF i > Len(splits) THEN JoinDocs(current_doc)
    ELSE IF Total(current_doc) + splits[i].len > ChunkSize /\ current_doc # <<>>
    THEN JoinDocs(current_doc)
           \o MergeSplits(splits, i + 1,
                          Append(DropHead(current_doc, splits[i].len),
                                 splits[i]))
    ELSE MergeSplits(splits, i + 1, Append(current_doc, splits[i]))

\* _split_text(s, new_separators) for a split s of ChunkSize characters or
\* more.  A paragraph at the head of the text holds no finer separator and
\* goes to windows over its characters.  One that follows a break is split
\* at "\n" into a lone "\n" and "\n" with the paragraph: when the latter is
\* shorter than ChunkSize the two are merged back into one chunk, and
\* otherwise the lone "\n" is dropped as blank and the rest goes to windows.
SplitAgain(s) ==
    IF s.sep = 0 THEN Windows(s.len)
    ELSE IF s.len - 1 < ChunkSize THEN <<s.len>>
    ELSE Windows(s.len - 1)

\* RecursiveCharacterTextSplitter._split_text over the splits from i on,
\* with _good_splits collected so far: a split shorter than ChunkSize is
\* collected for merging; a longer one first flushes the collected ones and
\* is then split again on the finer separators.
RECURSIVE SplitFrom(_, _, _)
SplitFrom(splits, i, good_splits) ==
    IF i > Len(splits) THEN MergeSplits(good_splits, 1, <<>>)
    ELSE IF splits[i].len < ChunkSize
    THEN SplitFrom(splits, i + 1, Append(good_splits, splits[i]))
    ELSE MergeSplits(good_splits, 1, <<>>)
           \o SplitAgain(splits[i])
           \o SplitFrom(splits, i + 1, <<>>)

\* text_splitter.split_documents(documents) for the one document a text
\* file loads as: the lengths of its chunks, in order.
SplitDocuments(text) == SplitFrom(ParagraphSplits(text), 1, <<>>)

\* len(chunks)
SplitCount(text) == Len(SplitDocuments(text))

\* The vectors one upsert call stores: chunks lo..hi of a run, each with the
\* metadata process_document attached (lines 113-119).  The vector ids are
\* fresh uuids made by the call that sends the chunk, so the run and the
\* call (the batch-th of its run) are part of a vector's identity.
ChunkVectors(document_id, user_id, run, batch, lo, hi) ==
    {[document_id |-> document_id, user_id |-> user_id, i |-> i, run |-> run,
      batch |-> batch] : i \in lo .. hi}

\* The chunks of the operator's book: no owning document, no owning user.
BookChunks == ChunkVectors(0, None, 0, 1, 1, 2)

\* The record upload_document inserts (document_dict).
NewDocument(t, ext, text) ==
    [user_id |-> t, file_type |-> ext, text |-> text,
     processed |-> FALSE, processing_status |-> "pending",
     processing_error |-> None, vector_store_id |-> None,
     chunk_count |-> 0, is_active |-> TRUE]

\* The $set of process_document's first update_one.
ProcessingUpdate_KeepError(doc) ==
    [doc EXCEPT !.processing_status = "processing"]

ProcessingUpdate(doc) ==
    [doc EXCEPT !.processing_status = "processing", !.processing_error = None]

\* The $set of process_document's update_one on success.
CompletedUpdate_Accumulate(doc, n, namespace) ==
    [doc EXCEPT !.processed = TRUE, !.processing_status = "completed",
                !.chunk_count = @ + n, !.vector_store_id = namespace,
                !.processing_error = None]

CompletedUpdate(doc, n, namespace) ==
    [doc EXCEPT !.processed = TRUE, !.processing_status = "completed",
                !.chunk_count = n, !.vector_store_id = namespace,
                !.processing_error = None]

\* The $set of the update_one in process_document's except clause, and of the
\* one in upload_document's except clause.
FailedUpdate_ResetCount(doc, e) ==
    [doc EXCEPT !.processing_status = "failed", !.processing_error = e,
                !.chunk_count = 0]

FailedUpdate(doc, e) ==
    [doc EXCEPT !.processing_status = "failed", !.processing_error = e]

\* The DocumentResponse upload_document builds: from document_dict as it was
\* inserted, with chunk_count=0.
UploadResponse(d) ==
    LET document_dict == NewDocument(documents[d].user_id,
                                     documents[d].file_type,
                                     documents[d].text)
    IN  [op |-> "upload", code |-> 201,
         processed |-> document_dict.processed,
         processing_status |-> document_dict.processing_status,
         chunk_count |-> 0]

\* Whether retry_document_processing goes on to process_document for a
\* document with this status.
RetryAllowed_NotCompleted(status) == status # "completed"

RetryAllowed(status) == status = "failed"

----------------------------------------------------------------------------
(* The initial state: an empty documents collection, an empty index, no     *)
(* request in progress, the ChatbotService as its constructor leaves it.    *)

NoResponse == [op |-> "none", code |-> 0]

Init ==
    /\ documents = [d \in DocIds |-> NoDocument]
    /\ index = [ns \in Namespaces |-> {}]
    /\ runs = {}
    /\ started = 0
    /\ svc = [initialized |-> FALSE, pinecone_manager |-> FALSE,
              embedding_model |-> FALSE, vector_store |-> FALSE,
              llm_model |-> FALSE]
    /\ response = NoResponse
    /\ indexes = [name \in IndexNames |->
                    IF name = PineconeIndexName
                    THEN [dimension |-> PineconeDimension]
                    ELSE NoIndex]
    /\ tempfiles = {}

----------------------------------------------------------------------------
(* process_document and the two routes that call it *)

\* A call of process_document(document_id, gridfs_file_id, user_id, db) made
\* by `origin`, about to run its first update_one (temp_file_path is None).
NewRun(id, d, user_id, origin) ==
    [id |-> id, document_id |-> d, user_id |-> user_id, origin |-> origin,
     pc |-> "mark_processing", error |-> None, n |-> 0, namespace |-> None,
     temp_file_path |-> None]

\* temp_file.name: the file the call with this id creates; every call of
\* NamedTemporaryFile gives a name of its own.
TempFileName(id) == "/tmp/tmp" \o ToString(id)

\* The finally clause of process_document, run when the call r ends: the
\* temporary file is unlinked when temp_file_path names one; a failing
\* unlink is logged and the file stays.
Finally(r, unlink_ok) ==
    tempfiles' = IF r.temp_file_path # None /\ unlink_ok
                 THEN tempfiles \ {r.temp_file_path}
                 ELSE tempfiles

\* What the calling route does once process_document has returned (True or
\* False): upload_document appends its DocumentResponse, and
\* retry_document_processing answers that processing was restarted.
Returned(r) ==
    /\ runs' = runs \ {r}
    /\ response' =
         IF r.origin = "upload"
         THEN UploadResponse(r.document_id)
         ELSE [op |-> "retry", code |-> 200]

\* The exception e is raised inside the try block: control goes to the
\* except clause, which awaits its own update_one.
Raise(r, e) ==
    /\ runs' = {q \in runs : q.id # r.id}
                  \cup {[r EXCEPT !.pc = "except", !.error = e]}
    /\ UNCHANGED response

\* upload_document, for one file.  An extension outside the allowed list is
\* answered 400 before anything is stored; otherwise the file goes to GridFS,
\* the document record is inserted and process_document is called.
UploadAllowing(allowed_extensions_list, t, ext, text) ==
    /\ started < MaxRuns
    /\ \E d \in DocIds :
        /\ documents[d] = NoDocument
        /\ \A e \in DocIds : e < d => documents[e] # NoDocument
        /\ IF ext \notin allowed_extensions_list
           THEN /\ response' = [op |-> "upload", code |-> 400]
                /\ UNCHANGED <<documents, runs, started>>
           ELSE /\ documents' = [documents EXCEPT ![d] = NewDocument(t, ext, text)]
                /\ started' = started + 1
                /\ runs' = runs \cup {NewRun(started + 1, d, t, "upload")}
                /\ UNCHANGED response
    /\ UNCHANGED <<index, svc, indexes, tempfiles>>

\* upload_document under the default settings.
UploadDocument(t, ext, text) ==
    UploadAllowing(AllowedExtensions, t, ext, text)

\* upload_document when the environment sets ALLOWED_EXTENSIONS to a list
\* that also admits .bin files, a type process_document has no loader for.
UploadDocumentConfigured(t, ext, text) ==
    UploadAllowing(ConfiguredExtensions, t, ext, text)

\* process_document lines 51-60: the status goes to processing and the error
\* is cleared; a failing update_one raises into the except clause.
MarkProcessing(r, ok) ==
    /\ r.pc = "mark_processing"
    /\ IF ok
       THEN /\ documents' = [documents EXCEPT ![r.document_id] =
                                ProcessingUpdate(documents[r.document_id])]
            /\ runs' = (runs \ {r}) \cup {[r EXCEPT !.pc = "fetch"]}
            /\ UNCHANGED response
       ELSE /\ Raise(r, "database error")
            /\ UNCHANGED documents
    /\ UNCHANGED <<index, started, svc, indexes, tempfiles>>

\* process_document lines 62-76: read the document record back and download
\* the stored file from GridFS.  Both awaits only read data that no operation
\* changes after the upload, so no other request can tell them apart and
\* they are taken as one step; either may raise.
FetchDocument(r, ok) ==
    /\ r.pc = "fetch"
    /\ IF ok
       THEN IF documents[r.document_id] = NoDocument
            THEN Raise(r, "Document not found")
            ELSE /\ runs' = (runs \ {r}) \cup {[r EXCEPT !.pc = "ingest"]}
                 /\ UNCHANGED response
       ELSE Raise(r, "database error")
    /\ UNCHANGED <<documents, index, started, svc, indexes, tempfiles>>

\* The file types process_document has a loader for (lines 87-96).
HasLoader_Any(file_type) == TRUE

HasLoader(file_type) == file_type \in {"pdf", "docx", "doc", "xlsx", "xls", "txt"}

\* setup_vector_store uploads n documents in calls of at most BatchSize.
NumBatches(n) == (n + BatchSize - 1) \div BatchSize

\* The slices of documents that setup_vector_store uploads, one call each:
\* documents[:batch_size] by from_documents and documents[i:i+batch_size]
\* for i = batch_size, 2*batch_size, ... by add_documents when there are
\* more than batch_size documents, and all of them in one from_documents
\* call otherwise.  Chunk numbers count from 1.
Batches_Overlapping(n) ==
    IF n > BatchSize
    THEN [b \in 1 .. NumBatches(n) |->
            [lo |-> IF b = 1 THEN 1 ELSE (b - 1) * BatchSize,
             hi |-> IF b * BatchSize < n THEN b * BatchSize ELSE n]]
    ELSE IF n > 0 THEN <<[lo |-> 1, hi |-> n]>> ELSE <<>>

Batches(n) ==
    IF n > BatchSize
    THEN [b \in 1 .. NumBatches(n) |->
            [lo |-> (b - 1) * BatchSize + 1,
             hi |-> IF b * BatchSize < n THEN b * BatchSize ELSE n]]
    ELSE IF n > 0 THEN <<[lo |-> 1, hi |-> n]>> ELSE <<>>

AddDocumentsToVectorstore_Replace(idx, r, namespace, n, sent) ==
    [idx EXCEPT ![namespace] =
        {c \in @ : c.document_id # r.document_id}
           \cup UNION {ChunkVectors(r.document_id, r.user_id, r.id, b,
                                    Batches(n)[b].lo, Batches(n)[b].hi) :
                          b \in 1 .. sent}]

AddDocumentsToVectorstore_SkipFailed(idx, r, namespace, n, sent) ==
    [idx EXCEPT ![namespace] =
        @ \cup UNION {ChunkVectors(r.document_id, r.user_id, r.id, b,
                                   Batches(n)[b].lo, Batches(n)[b].hi) :
                         b \in (1 .. sent) \cup (sent + 2 .. Len(Batches(n)))}]

\* add_documents_to_vectorstore(chunks, namespace) for the n chunks of the
\* call r: the index after the first `sent` upload calls went through.  The
\* vector store is built on `namespace` by from_documents, and add_documents
\* writes to the namespace of the store.  With no chunk at all
\* setup_vector_store only opens the existing index and stores nothing.
AddDocumentsToVectorstore(idx, r, namespace, n, sent) ==
    [idx EXCEPT ![namespace] =
        @ \cup UNION {ChunkVectors(r.document_id, r.user_id, r.id, b,
                                   Batches(n)[b].lo, Batches(n)[b].hi) :
                         b \in 1 .. sent}]

\* process_document lines 78-130, which hold no await: create the temporary
\* file (delete=False), write the content, keep the file's name in
\* temp_file_path, pick the loader, load, split, tag every chunk, and store
\* the chunks in the namespace of the user the call was made for.  `fail` is
\* the step that raises, if any: with "tempfile" no file is created; with
\* "write" the file exists and is closed by the with statement, and
\* temp_file_path is still None; a failing vector-store call leaves the `k`
\* batches stored before it.
Ingest(r, fail, k) ==
    /\ r.pc = "ingest"
    /\ LET doc == documents[r.document_id]
           n == SplitCount(doc.text)
           namespace == IngestNamespace(r.user_id)
           f == [r EXCEPT !.temp_file_path = TempFileName(r.id)]
       IN  IF fail = "tempfile"
           THEN Raise(r, "ingest error") /\ UNCHANGED <<index, tempfiles>>
           ELSE
           /\ tempfiles' = tempfiles \cup {TempFileName(r.id)}
           /\ IF fail = "write"
              THEN Raise(r, "ingest error") /\ UNCHANGED index
              ELSE IF ~HasLoader(doc.file_type)
              THEN Raise(f, "Unsupported file type") /\ UNCHANGED index
              ELSE IF fail = "load"
              THEN Raise(f, "ingest error") /\ UNCHANGED index
              ELSE IF fail = "vectorstore"
              THEN /\ k \in 0 .. (IF n = 0 THEN 0 ELSE Len(Batches(n)) - 1)
                   /\ index' = AddDocumentsToVectorstore(index, r, namespace,
                                                         n, k)
                   /\ Raise(f, "ingest error")
              ELSE /\ k = 0
                   /\ index' = AddDocumentsToVectorstore(index, r, namespace,
                                                         n, Len(Batches(n)))
                   /\ runs' = (runs \ {r}) \cup
                        {[f EXCEPT !.pc = "mark_completed", !.n = n,
                                   !.namespace = namespace]}
                   /\ UNCHANGED response
    /\ UNCHANGED <<documents, started, svc, indexes>>

\* process_document lines 132-147: record the success and return True
\* through the finally clause.
MarkCompleted(r, ok, unlink_ok) ==
    /\ r.pc = "mark_completed"
    /\ IF ok
       THEN /\ documents' = [documents EXCEPT ![r.document_id] =
                CompletedUpdate(documents[r.document_id], r.n, r.namespace)]
            /\ Returned(r)
            /\ Finally(r, unlink_ok)
       ELSE /\ Raise(r, "database error")
            /\ UNCHANGED <<documents, tempfiles>>
    /\ UNCHANGED <<index, started, svc, indexes>>

\* process_document lines 149-163: record the failure and return False.  When
\* this update_one raises too, the exception leaves process_document:
\* upload_document catches it and awaits an update of its own, and
\* retry_document_processing turns it into a 500.  The finally clause runs
\* either way.
MarkFailed(r, ok, unlink_ok) ==
    /\ r.pc = "except"
    /\ Finally(r, unlink_ok)
    /\ IF ok
       THEN /\ documents' = [documents EXCEPT ![r.document_id] =
                FailedUpdate(documents[r.document_id], r.error)]
            /\ Returned(r)
       ELSE /\ UNCHANGED documents
            /\ IF r.origin = "upload"
               THEN /\ runs' = (runs \ {r}) \cup
                        {[r EXCEPT !.pc = "upload_except",
                                   !.error = "database error"]}
                    /\ UNCHANGED response
               ELSE /\ runs' = runs \ {r}
                    /\ response' = [op |-> "retry", code |-> 500]
    /\ UNCHANGED <<index, started, svc, indexes>>

\* upload_document lines 124-134: process_document raised; mark the document
\* failed from the route.  If that update raises as well the request ends in
\* a 500.
UploadExcept(r, ok) ==
    /\ r.pc = "upload_except"
    /\ runs' = runs \ {r}
    /\ IF ok
       THEN /\ documents' = [documents EXCEPT ![r.document_id] =
                FailedUpdate(documents[r.document_id], r.error)]
            /\ response' = UploadResponse(r.document_id)
       ELSE /\ UNCHANGED documents
            /\ response' = [op |-> "upload", code |-> 500]
    /\ UNCHANGED <<index, started, svc, indexes, tempfiles>>

\* retry_document_processing: 404 unless the caller owns the document, 400
\* unless its status is failed, otherwise a new process_document call for
\* the caller.
RetryDocumentProcessing(t, d) ==
    /\ IF ~Owns(t, d)
       THEN /\ response' = [op |-> "retry", code |-> 404]
            /\ UNCHANGED <<runs, started>>
       ELSE IF ~RetryAllowed(documents[d].processing_status)
       THEN /\ response' = [op |-> "retry", code |-> 400]
            /\ UNCHANGED <<runs, started>>
       ELSE /\ started < MaxRuns
            /\ started' = started + 1
            /\ runs' = runs \cup {NewRun(started + 1, d, t, "retry")}
            /\ UNCHANGED response
    /\ UNCHANGED <<documents, index, svc, indexes, tempfiles>>

\* delete_document: a soft delete of a document the caller owns.
DeleteDocument(t, d) ==
    /\ IF Owns(t, d)
       THEN /\ documents' = [documents EXCEPT ![d].is_active = FALSE]
            /\ response' = [op |-> "delete", code |-> 200]
       ELSE /\ UNCHANGED documents
            /\ response' = [op |-> "delete", code |-> 404]
    /\ UNCHANGED <<index, runs, started, svc, indexes, tempfiles>>

\* get_document: the record of a document the caller owns, as a
\* DocumentResponse; 404 when find_one with the caller's user_id finds none.
GetDocument(t, d) ==
    /\ response' =
         IF Owns(t, d)
         THEN [op |-> "get", code |-> 200, user_id |-> t, document_id |-> d,
               file_type |-> documents[d].file_type,
               processed |-> documents[d].processed,
               processing_status |-> documents[d].processing_status,
               chunk_count |-> documents[d].chunk_count,
               is_active |-> documents[d].is_active]
         ELSE [op |-> "get", code |-> 404, user_id |-> t, document_id |-> d]
    /\ UNCHANGED <<documents, index, runs, started, svc, indexes, tempfiles>>

\* download_document: the stored content of a document the caller owns; 404
\* when find_one with the caller's user_id finds none, 500 when GridFS fails.
DownloadDocument(t, d, ok) ==
    /\ response' =
         IF ~Owns(t, d)
         THEN [op |-> "download", code |-> 404, user_id |-> t,
               document_id |-> d]
         ELSE IF ok
         THEN [op |-> "download", code |-> 200, user_id |-> t,
               document_id |-> d, content |-> documents[d].text]
         ELSE [op |-> "download", code |-> 500, user_id |-> t,
               document_id |-> d]
    /\ UNCHANGED <<documents, index, runs, started, svc, indexes, tempfiles>>

----------------------------------------------------------------------------
(* The operator's scripts that fill the index outside the API *)

\* setup_free_tier.py: upload the book's chunks to FREE_NAMESPACE.  When the
\* namespace already holds vectors the script asks before going on; the
\* operator of this model then answers no.
SetupFreeTier ==
    /\ index[FREE_NAMESPACE] = {}
    /\ index' = [index EXCEPT ![FREE_NAMESPACE] = @ \cup BookChunks]
    /\ UNCHANGED <<documents, runs, started, svc, response, indexes, tempfiles>>

\* src/store_index.py: setup_vector_store(embedding, chunks) with no
\* namespace argument, which stores the chunks in the index's default
\* namespace.  Run once.
StoreIndex ==
    /\ index[DefaultNamespace] = {}
    /\ index' = [index EXCEPT ![DefaultNamespace] = @ \cup BookChunks]
    /\ UNCHANGED <<documents, runs, started, svc, response, indexes, tempfiles>>

\* get_embedding_dimension(model_name): dimension_map.get(model_name, 384).
EmbeddingDimension(model_name) ==
    CASE model_name = "sentence-transformers/all-MiniLM-L6-v2" -> 384
      [] model_name = "sentence-transformers/all-mpnet-base-v2" -> 768
      [] model_name
           = "sentence-transformers/paraphrase-multilingual-MiniLM-L12-v2" -> 384
      [] OTHER -> 384

\* A script calls get_embedding_dimension; the call returns a dimension and
\* raises nothing.
GetEmbeddingDimension(model_name) ==
    /\ response' = [op |-> "get_embedding_dimension",
                    model_name |-> model_name,
                    dimension |-> EmbeddingDimension(model_name),
                    error |-> None]
    /\ UNCHANGED <<documents, index, runs, started, svc, indexes, tempfiles>>

\* PineconeManager(index_name).create_index(dimension): the index is created
\* when its name is not listed, and otherwise taken as it is; the call
\* returns normally in both cases.  (The service and the pipeline make this
\* call too; the index of the deployment exists from the initial state on,
\* so there it changes nothing.)
CreateIndex(index_name, dimension) ==
    /\ indexes' = IF indexes[index_name] = NoIndex
                  THEN [indexes EXCEPT ![index_name] = [dimension |-> dimension]]
                  ELSE indexes
    /\ response' = [op |-> "create_index", index_name |-> index_name,
                    dimension |-> dimension,
                    created |-> (indexes[index_name] = NoIndex),
                    error |-> None]
    /\ UNCHANGED <<documents, index, runs, started, svc, tempfiles>>

\* PineconeManager(index_name).delete_index().
DeleteIndex(index_name) ==
    /\ indexes' = [indexes EXCEPT ![index_name] = NoIndex]
    /\ response' = [op |-> "delete_index", index_name |-> index_name,
                    deleted |-> (indexes[index_name] # NoIndex)]
    /\ UNCHANGED <<documents, index, runs, started, svc, tempfiles>>

----------------------------------------------------------------------------
(* The chat query path *)

\* How one call of ChatbotService.initialize can end: with every step done,
\* or with an exception in one of its steps.
InitOutcomes ==
    {"ok", "pinecone_manager", "create_index", "embedding_model",
     "vector_store", "llm_model"}

Initialize_ReadyOnError(s, outcome) ==
    IF s.initialized THEN s
    ELSE CASE outcome = "pinecone_manager" ->
                [s EXCEPT !.initialized = TRUE]
           [] outcome \in {"create_index", "embedding_model"} ->
                [s EXCEPT !.pinecone_manager = TRUE, !.initialized = TRUE]
           [] outcome = "vector_store" ->
                [s EXCEPT !.pinecone_manager = TRUE, !.embedding_model = TRUE,
                          !.initialized = TRUE]
           [] outcome = "llm_model" ->
                [s EXCEPT !.pinecone_manager = TRUE, !.embedding_model = TRUE,
                          !.vector_store = TRUE, !.initialized = TRUE]
           [] OTHER ->
                [initialized |-> TRUE, pinecone_manager |-> TRUE,
                 embedding_model |-> TRUE, vector_store |-> TRUE,
                 llm_model |-> TRUE]

\* ChatbotService.initialize: nothing when already initialized; otherwise the
\* steps run in order and each assigns its handle, until `outcome` raises.
\* The except clause sets _initialized to False and does not re-raise.
Initialize(s, outcome) ==
    IF s.initialized THEN s
    ELSE CASE outcome = "pinecone_manager" ->
                [s EXCEPT !.initialized = FALSE]
           [] outcome \in {"create_index", "embedding_model"} ->
                [s EXCEPT !.pinecone_manager = TRUE, !.initialized = FALSE]
           [] outcome = "vector_store" ->
                [s EXCEPT !.pinecone_manager = TRUE, !.embedding_model = TRUE,
                          !.initialized = FALSE]
           [] outcome = "llm_model" ->
                [s EXCEPT !.pinecone_manager = TRUE, !.embedding_model = TRUE,
                          !.vector_store = TRUE, !.initialized = FALSE]
           [] OTHER ->
                [initialized |-> TRUE, pinecone_manager |-> TRUE,
                 embedding_model |-> TRUE, vector_store |-> TRUE,
                 llm_model |-> TRUE]

\* The results a similarity search for the k nearest vectors of a set can
\* give: the k best in ranking order, fewer when the set holds fewer.
RECURSIVE Rankings(_, _)
Rankings(S, k) ==
    IF k = 0 \/ S = {} THEN {<<>>}
    ELSE UNION {{<<c>> \o rest : rest \in Rankings(S \ {c}, k - 1)} : c \in S}

\* doc.metadata.get('source', 'Unknown'): the loader's source, which is the
\* temporary file of the run that stored the chunk (0: the operator's book).
Source(c) == c.run

\* The vectors a similarity search sees in a namespace; a namespace nothing
\* was ever stored in holds none.
NamespaceVectors(namespace) ==
    IF namespace \in DOMAIN index THEN index[namespace] ELSE {}

\* The values of ChatRequest.top_k the model sends (the schema allows 1..10).
TopKs == {1, 2}

\* The states the service can be in once query_chatbot has called
\* initialize() (when the service is not ready) and ChatbotService.query has
\* called it again (when it is still not initialized), each with the number
\* of these calls that went past the `if self._initialized` guard.
InitResults(s) ==
    {[svc |-> Initialize(Initialize(s, o1), o2),
      initialize_calls |-> (IF s.initialized THEN 0 ELSE 1)
                             + (IF Initialize(s, o1).initialized THEN 0 ELSE 1)] :
        o1 \in InitOutcomes, o2 \in InitOutcomes}

\* What QueryEngine.retrieve_context can hand back for a namespace: a ranking
\* of its vectors, or nothing when the retriever raises (the except clause
\* replaces the result by an empty list).
Retrievals(s, namespace, top_k) ==
    {[docs |-> <<>>, raised |-> TRUE]}
       \cup (IF s.embedding_model
             THEN {[docs |-> docs, raised |-> FALSE] :
                      docs \in Rankings(NamespaceVectors(namespace), top_k)}
             ELSE {})

\* QueryEngine.create_prompt: a fixed template around the context, which is
\* the retrieved chunks' text joined in retrieval order (the question is the
\* same in every query of the model).
CreatePrompt(docs) == [template |-> "medical assistant", context |-> docs]

\* The text the generation provider gives for a prompt.
LlmText(prompt) == [generated_for |-> prompt]

GenerateResponse_SkipEmpty(prompt) ==
    IF prompt.context = <<>>
    THEN [text |-> "I don't know", calls |-> 0]
    ELSE [text |-> LlmText(prompt), calls |-> 1]

GenerateResponse_Twice(prompt) == [text |-> LlmText(prompt), calls |-> 2]

\* QueryEngine.generate_response: one generate_content call, whose text is
\* handed back as it is.
GenerateResponse(prompt) == [text |-> LlmText(prompt), calls |-> 1]

Sources_Deduplicated(docs) ==
    LET kept[i \in 0 .. Len(docs)] ==
            IF i = 0 THEN <<>>
            ELSE IF \E j \in 1 .. (i - 1) : Source(docs[j]) = Source(docs[i])
                 THEN kept[i - 1]
                 ELSE Append(kept[i - 1], Source(docs[i]))
    IN  kept[Len(docs)]

\* QueryEngine.query, line 133: the source of every retrieved chunk.
Sources(docs) == [i \in 1 .. Len(docs) |-> Source(docs[i])]

\* query_chatbot and ChatbotService.query, which hold no await.  After the
\* initialization attempts (leaving the service as s), the namespace is
\* chosen from the caller's identity, the retriever is built on it,
\* QueryEngine.query retrieves docs, generates, and the route shapes the
\* response.  Every exception ends in a 500: a missing Pinecone manager or
\* LLM handle, or a failing generation call.  Beside what the route answers
\* the response records what the query did: the initialize calls it made,
\* whether the retriever was invoked and whether it raised, the chunks
\* retrieved, and how often generate_content was called.  Without a
\* Pinecone manager the query raises before it has a retriever; without an
\* LLM handle it raises in generate_response, after the retrieval.
QueryChatbot(user_id, top_k, return_sources, llm_ok) ==
    /\ \E init \in InitResults(svc) :
        LET s == init.svc
            namespace == QueryNamespace(user_id)
        IN  \E retrieved \in Retrievals(s, namespace, top_k) :
           LET docs == retrieved.docs
               generated == GenerateResponse(CreatePrompt(docs))
           IN
           /\ svc' = s
           /\ response' =
                IF ~s.pinecone_manager
                THEN [op |-> "query", code |-> 500, user_id |-> user_id,
                      namespace |-> namespace,
                      initialize_calls |-> init.initialize_calls,
                      retriever_calls |-> 0, llm_calls |-> 0]
                ELSE IF ~s.llm_model
                THEN [op |-> "query", code |-> 500, user_id |-> user_id,
                      namespace |-> namespace,
                      initialize_calls |-> init.initialize_calls,
                      retriever_calls |-> 1, llm_calls |-> 0]
                ELSE IF ~llm_ok
                THEN [op |-> "query", code |-> 500, user_id |-> user_id,
                      namespace |-> namespace,
                      initialize_calls |-> init.initialize_calls,
                      retriever_calls |-> 1, llm_calls |-> generated.calls]
                ELSE [op |-> "query", code |-> 200, user_id |-> user_id,
                      namespace |-> namespace,
                      initialize_calls |-> init.initialize_calls,
                      retriever_calls |-> 1,
                      retrieval_raised |-> retrieved.raised,
                      context_docs |-> docs,
                      llm_calls |-> generated.calls,
                      answer |-> generated.text,
                      return_sources |-> return_sources,
                      sources |-> IF return_sources
                                  THEN Sources(docs)
                                  ELSE None]
    /\ UNCHANGED <<documents, index, runs, started, indexes, tempfiles>>

----------------------------------------------------------------------------

\* The document routes and the ingestion pipeline, with every awaited
\* operation free to fail.
Next ==
    \/ \E t \in Tenants, ext \in FileExtensions, text \in Texts :
          UploadDocument(t, ext, text)
    \/ \E r \in runs, ok \in BOOLEAN : MarkProcessing(r, ok)
    \/ \E r \in runs, ok \in BOOLEAN : FetchDocument(r, ok)
    \/ \E r \in runs, fail \in {"none", "tempfile", "load", "vectorstore"},
          k \in 0 .. MaxRuns : Ingest(r, fail, k)
    \/ \E r \in runs, ok \in BOOLEAN : MarkCompleted(r, ok, TRUE)
    \/ \E r \in runs, ok \in BOOLEAN : MarkFailed(r, ok, TRUE)
    \/ \E r \in runs, ok \in BOOLEAN : UploadExcept(r, ok)
    \/ \E t \in Tenants, d \in DocIds : RetryDocumentProcessing(t, d)
    \/ \E t \in Tenants, d \in DocIds : DeleteDocument(t, d)

Spec == Init /\ [][Next]_vars

\* The chat route beside the tenants' uploads and the operator's store_index
\* script.  The uploads run concurrently with each other and with the
\* queries; here the database and the providers of the ingestion pipeline
\* answer, so that the state space leaves room for the queries' outcomes.
NextChat ==
    \/ \E t \in Tenants, text \in Texts : UploadDocument(t, "txt", text)
    \/ \E r \in runs : MarkProcessing(r, TRUE)
    \/ \E r \in runs : FetchDocument(r, TRUE)
    \/ \E r \in runs : Ingest(r, "none", 0)
    \/ \E r \in runs : MarkCompleted(r, TRUE, TRUE)
    \/ StoreIndex
    \/ \E user_id \in Callers, top_k \in TopKs, return_sources \in BOOLEAN,
          llm_ok \in BOOLEAN :
          QueryChatbot(user_id, top_k, return_sources, llm_ok)

SpecChat == Init /\ [][NextChat]_vars

\* The document routes and the pipeline of a deployment whose settings admit
\* a file type without a loader; every awaited operation is free to fail.
NextLoader ==
    \/ \E t \in Tenants, ext \in {"txt", "bin"}, text \in Texts :
          UploadDocumentConfigured(t, ext, text)
    \/ \E r \in runs, ok \in BOOLEAN : MarkProcessing(r, ok)
    \/ \E r \in runs, ok \in BOOLEAN : FetchDocument(r, ok)
    \/ \E r \in runs, fail \in {"none", "tempfile", "load", "vectorstore"},
          k \in 0 .. MaxRuns : Ingest(r, fail, k)
    \/ \E r \in runs, ok \in BOOLEAN : MarkCompleted(r, ok, TRUE)
    \/ \E r \in runs, ok \in BOOLEAN : MarkFailed(r, ok, TRUE)
    \/ \E r \in runs, ok \in BOOLEAN : UploadExcept(r, ok)
    \/ \E t \in Tenants, d \in DocIds : RetryDocumentProcessing(t, d)

SpecLoader == Init /\ [][NextLoader]_vars

\* An operator setting up and tearing down indexes of the Pinecone project
\* with the scripts' calls, starting from a project without any index.
InitSetup ==
    /\ documents = [d \in DocIds |-> NoDocument]
    /\ index = [ns \in Namespaces |-> {}]
    /\ runs = {}
    /\ started = 0
    /\ svc = [initialized |-> FALSE, pinecone_manager |-> FALSE,
              embedding_model |-> FALSE, vector_store |-> FALSE,
              llm_model |-> FALSE]
    /\ response = NoResponse
    /\ indexes = [name \in IndexNames |-> NoIndex]
    /\ tempfiles = {}

NextSetup ==
    \/ \E model_name \in ModelNames : GetEmbeddingDimension(model_name)
    \/ \E index_name \in IndexNames, dimension \in Dimensions :
          CreateIndex(index_name, dimension)
    \/ \E index_name \in IndexNames : DeleteIndex(index_name)

SpecSetup == InitSetup /\ [][NextSetup]_vars

\* The providers and the database can fail until the last of the MaxRuns
\* calls of process_document has been made, and answer from then on.
Healthy == started = MaxRuns

\* One step of the call r of process_document, resumed by the event loop.
\* While the providers are not healthy the loader or the vector store may
\* raise and the write of the success may fail.
RunStep(r) ==
    \/ MarkProcessing(r, TRUE)
    \/ FetchDocument(r, TRUE)
    \/ \E fail \in (IF Healthy THEN {"none"} ELSE {"none", "load", "vectorstore"}) :
          Ingest(r, fail, 0)
    \/ \E ok \in (IF Healthy THEN {TRUE} ELSE BOOLEAN) :
          MarkCompleted(r, ok, TRUE)
    \/ MarkFailed(r, TRUE, TRUE)

\* Uploads and retries with providers that fail for a while and then stop
\* failing.  The event loop resumes every call whose awaited operation has
\* finished, so a call that can take a step eventually takes one.
NextRetry ==
    \/ \E t \in Tenants, text \in Texts : UploadDocument(t, "txt", text)
    \/ \E r \in runs : RunStep(r)
    \/ \E t \in Tenants, d \in DocIds : RetryDocumentProcessing(t, d)

SpecRetry ==
    Init /\ [][NextRetry]_vars /\ WF_vars(\E r \in runs : RunStep(r))

\* Uploads of text files with and without paragraph breaks, ingested by a
\* pipeline whose database and providers answer.
NextSplit ==
    \/ \E t \in Tenants, text \in SplitTexts : UploadDocument(t, "txt", text)
    \/ \E r \in runs : MarkProcessing(r, TRUE)
    \/ \E r \in runs : FetchDocument(r, TRUE)
    \/ \E r \in runs : Ingest(r, "none", 0)
    \/ \E r \in runs : MarkCompleted(r, TRUE, TRUE)

SpecSplit == Init /\ [][NextSplit]_vars

\* One tenant's uploads and retries with every step of process_document
\* free to fail, the write into the temporary file and the unlink of the
\* finally clause included.
NextTemp ==
    \/ \E text \in Texts : UploadDocument("a", "txt", text)
    \/ \E r \in runs, ok \in BOOLEAN : MarkProcessing(r, ok)
    \/ \E r \in runs, ok \in BOOLEAN : FetchDocument(r, ok)
    \/ \E r \in runs,
          fail \in {"none", "tempfile", "write", "load", "vectorstore"} :
          Ingest(r, fail, 0)
    \/ \E r \in runs, ok \in BOOLEAN, unlink_ok \in BOOLEAN :
          MarkCompleted(r, ok, unlink_ok)
    \/ \E r \in runs, ok \in BOOLEAN, unlink_ok \in BOOLEAN :
          MarkFailed(r, ok, unlink_ok)
    \/ \E r \in runs, ok \in BOOLEAN : UploadExcept(r, ok)
    \/ \E d \in DocIds : RetryDocumentProcessing("a", d)

SpecTemp == Init /\ [][NextTemp]_vars

\* One tenant's uploads and retries of short and long texts, with a vector store
\* whose upload calls can fail and a database that can fail when a failure
\* is recorded.
NextBatch ==
    \/ \E text \in BatchTexts : UploadDocument("a", "txt", text)
    \/ \E r \in runs : MarkProcessing(r, TRUE)
    \/ \E r \in runs : FetchDocument(r, TRUE)
    \/ \E r \in runs, fail \in {"none", "vectorstore"}, k \in 0 .. MaxRuns :
          Ingest(r, fail, k)
    \/ \E r \in runs : MarkCompleted(r, TRUE, TRUE)
    \/ \E r \in runs, ok \in BOOLEAN : MarkFailed(r, ok, TRUE)
    \/ \E r \in runs, ok \in BOOLEAN : UploadExcept(r, ok)
    \/ \E d \in DocIds : RetryDocumentProcessing("a", d)

SpecBatch == Init /\ [][NextBatch]_vars

\* One tenant's uploads, retries and deletes of long texts, with a vector
\* store whose upload calls can fail.
NextVectors ==
    \/ UploadDocument("a", "txt", <<100000>>)
    \/ \E r \in runs : MarkProcessing(r, TRUE)
    \/ \E r \in runs : FetchDocument(r, TRUE)
    \/ \E r \in runs, fail \in {"none", "vectorstore"}, k \in 0 .. MaxRuns :
          Ingest(r, fail, k)
    \/ \E r \in runs : MarkCompleted(r, TRUE, TRUE)
    \/ \E r \in runs : MarkFailed(r, TRUE, TRUE)
    \/ \E d \in DocIds : RetryDocumentProcessing("a", d)
    \/ \E d \in DocIds : DeleteDocument("a", d)

SpecVectors == Init /\ [][NextVectors]_vars

\* The operator's two bootstrap scripts beside the chat route: either script
\* may run before or after any query.
NextBootstrap ==
    \/ SetupFreeTier
    \/ StoreIndex
    \/ \E user_id \in Callers, top_k \in TopKs, return_sources \in BOOLEAN,
          llm_ok \in BOOLEAN :
          QueryChatbot(user_id, top_k, return_sources, llm_ok)

SpecBootstrap == Init /\ [][NextBootstrap]_vars

\* Two tenants' uploads beside get, delete, retry and download requests of
\* either tenant for any stored document, with a vector store that can fail
\* so that documents become retryable.
NextOwner ==
    \/ \E t \in Tenants : UploadDocument(t, "txt", <<700>>)
    \/ \E r \in runs : MarkProcessing(r, TRUE)
    \/ \E r \in runs : FetchDocument(r, TRUE)
    \/ \E r \in runs, fail \in {"none", "vectorstore"} : Ingest(r, fail, 0)
    \/ \E r \in runs : MarkCompleted(r, TRUE, TRUE)
    \/ \E r \in runs : MarkFailed(r, TRUE, TRUE)
    \/ \E t \in Tenants, d \in DocIds :
          documents[d] # NoDocument /\ GetDocument(t, d)
    \/ \E t \in Tenants, d \in DocIds :
          documents[d] # NoDocument /\ DeleteDocument(t, d)
    \/ \E t \in Tenants, d \in DocIds :
          documents[d] # NoDocument /\ RetryDocumentProcessing(t, d)
    \/ \E t \in Tenants, d \in DocIds, ok \in BOOLEAN :
          documents[d] # NoDocument /\ DownloadDocument(t, d, ok)

SpecOwner == Init /\ [][NextOwner]_vars

----------------------------------------------------------------------------
(* Claims *)

\* The document d has been inserted.
Exists(d) == documents[d] # NoDocument

\* The stored processing_status of document d.
Status(d) == documents[d].processing_status

\* C1: a document is created pending, and its processing_status only ever
\* changes along pending -> processing, processing -> completed,
\* processing -> failed, or failed -> processing, the last only by the first
\* update of a run a retry request started.
C1_OnlyLifecycleTransitions ==
    [][\A d \in DocIds :
          /\ (~Exists(d) /\ documents'[d] # NoDocument)
                => documents'[d].processing_status = "pending"
          /\ (Exists(d) /\ documents'[d].processing_status # Status(d))
                => /\ <<Status(d), documents'[d].processing_status>>
                        \in {<<"pending", "processing">>,
                             <<"processing", "completed">>,
                             <<"processing", "failed">>,
                             <<"failed", "processing">>}
                   /\ Status(d) = "failed"
                        => \E r \in runs : /\ r.document_id = d
                                           /\ r.origin = "retry"
                                           /\ r.pc = "mark_processing"]_vars

\* C3: every vector an upload or a retry stores goes to the private
\* namespace user_<owner> of the tenant that owns the document and carries
\* that document and that tenant in its metadata; no step of an upload or a
\* retry changes the default namespace.
C3_UploadsWriteOwnNamespace ==
    [][/\ index'[DefaultNamespace] = index[DefaultNamespace]
       /\ \A ns \in Namespaces : \A c \in index'[ns] \ index[ns] :
             /\ Exists(c.document_id)
             /\ c.user_id = documents[c.document_id].user_id
             /\ ns = "user_" \o documents[c.document_id].user_id]_vars

\* C3 witness: a tenant's namespace holds vectors of the same document from
\* two runs, the upload's and a retry's, and the default namespace is empty.
C3_Witness ==
    /\ index[DefaultNamespace] = {}
    /\ \E c1 \in index["user_a"], c2 \in index["user_a"] :
          c1.document_id = c2.document_id /\ c1.run # c2.run

\* C5: a retry request by the owner of a document whose status is not failed
\* is answered 400 and changes neither the document records nor the index,
\* and starts no process_document call.
C5_RetryRejectedUnlessFailed ==
    [][\A t \in Tenants, d \in DocIds :
          (Owns(t, d) /\ Status(d) # "failed" /\ RetryDocumentProcessing(t, d))
             => /\ response' = [op |-> "retry", code |-> 400]
                /\ UNCHANGED <<documents, index, runs, started>>]_vars

\* C5 witness: a retry was answered 400 while a run of the document was
\* still in progress (its status being processing).
C5_Witness ==
    /\ response = [op |-> "retry", code |-> 400]
    /\ \E r \in runs : Status(r.document_id) = "processing"

\* C6: two process_document calls for the same document are never in
\* progress at the same time.
C6_OneRunPerDocument ==
    \A r1 \in runs, r2 \in runs :
        r1.document_id = r2.document_id => r1.id = r2.id

\* C7: a run that reached its except clause ends by returning, with the
\* document failed and an error recorded; process_document never raises into
\* upload_document or retry_document_processing.
C7_FailuresEndInFailed ==
    [][\A r \in runs :
          (r.pc = "except" /\ r \notin runs')
             => /\ \A q \in runs' : q.id # r.id
                /\ response' # [op |-> "retry", code |-> 500]
                /\ documents'[r.document_id].processing_status = "failed"
                /\ documents'[r.document_id].processing_error # None]_vars

\* C8: the response of an upload reports the status the document has in the
\* database when the upload returns, which is completed or failed, and on
\* completed the stored chunk count.
C8_UploadReportsTerminalStatus ==
    [][\A r \in runs :
          (r.origin = "upload" /\ (\A q \in runs' : q.id # r.id)
                /\ response'.op = "upload" /\ response'.code = 201)
             => /\ response'.processing_status
                     = documents'[r.document_id].processing_status
                /\ response'.processing_status \in {"completed", "failed"}
                /\ response'.processing_status = "completed"
                     => response'.chunk_count
                          = documents'[r.document_id].chunk_count]_vars

\* C9: a completed document has chunk_count > 0 and a vector_store_id whose
\* namespace holds vectors of that document.
C9_CompletedHasChunks ==
    \A d \in DocIds :
        (Exists(d) /\ Status(d) = "completed")
           => /\ documents[d].chunk_count > 0
              /\ documents[d].vector_store_id # None
              /\ \E c \in index[documents[d].vector_store_id] :
                    c.document_id = d

\* C10: processing_error is set only on a failed document.
C10_ErrorOnlyWhenFailed ==
    \A d \in DocIds :
        (Exists(d) /\ documents[d].processing_error # None)
           => Status(d) = "failed"

\* C10 witness: a retry of a failed document has entered processing, and the
\* error the failure recorded is gone.
C10_Witness ==
    \E r \in runs :
        /\ r.origin = "retry"
        /\ r.pc = "fetch"
        /\ Status(r.document_id) = "processing"
        /\ documents[r.document_id].processing_error = None

\* C2: a query by a tenant is resolved to the namespace user_<tenant>, and
\* every chunk it returns was stored for that tenant: the chunk's metadata
\* names the tenant, and the document it belongs to is the tenant's.
C2_QueryReturnsOwnChunks ==
    (response.op = "query" /\ response.user_id \in Tenants)
       => /\ response.namespace = "user_" \o response.user_id
          /\ response.code = 200
               => \A i \in 1 .. Len(response.context_docs) :
                     LET c == response.context_docs[i]
                     IN  /\ c.user_id = response.user_id
                         /\ c.document_id \in DocIds
                         /\ Owns(response.user_id, c.document_id)

\* C2 witness: tenant b's query returned chunks while tenant a's namespace
\* and the default namespace hold vectors too.
C2_Witness ==
    /\ response.op = "query"
    /\ response.code = 200
    /\ response.user_id = "b"
    /\ Len(response.context_docs) > 0
    /\ index["user_a"] # {}
    /\ index[DefaultNamespace] # {}

\* C4: every query is resolved to a namespace fixed by the caller alone:
\* user_a for tenant a, user_b for tenant b, the default namespace "" for an
\* anonymous caller, whatever the state of the service and of the stores and
\* whether or not the query then succeeds.
C4_NamespaceOfCaller ==
    response.op = "query"
       => /\ response.user_id = "a" => response.namespace = "user_a"
          /\ response.user_id = "b" => response.namespace = "user_b"
          /\ response.user_id = None => response.namespace = ""
          /\ response.user_id \in Callers

\* C4 witness: an anonymous query was resolved to the default namespace
\* although the service failed to initialize and the query failed.
C4_Witness ==
    /\ response.op = "query"
    /\ response.user_id = None
    /\ response.namespace = ""
    /\ response.code = 500
    /\ ~svc.initialized

\* C11: a write that records a failure changes only processing_status and
\* processing_error of the document and leaves chunk_count (and every other
\* field) at the value it had; chunk_count changes only in a write that
\* records a completion.
C11_FailureKeepsChunkCount ==
    [][\A d \in DocIds : Exists(d) =>
          /\ (/\ documents'[d].processing_status = "failed"
              /\ \/ Status(d) # "failed"
                 \/ documents'[d].processing_error
                      # documents[d].processing_error)
                => documents'[d] =
                     [documents[d] EXCEPT
                        !.processing_status = "failed",
                        !.processing_error = documents'[d].processing_error]
          /\ documents'[d].chunk_count # documents[d].chunk_count
                => documents'[d].processing_status = "completed"]_vars

\* C11 witness: a failure was recorded on a document whose chunk_count was
\* not 0 (a run that overlapped the failing one had completed), and the
\* count is still there.
C11_Witness ==
    \E d \in DocIds :
        /\ Exists(d)
        /\ Status(d) = "failed"
        /\ documents[d].processing_error # None
        /\ documents[d].chunk_count > 0

\* C12: a document whose file type has no loader (.bin) never has a vector
\* in any namespace and is never completed; the step of a run that reaches the
\* loader choice for it raises (the loader's "Unsupported file type", or
\* the error of the temporary file written just before) and leaves the index
\* as it was, and when process_document returns for it the document is
\* failed with an error recorded.
C12_NoLoaderFailsWithoutVectors ==
    [][\A r \in runs :
          LET d == r.document_id
          IN  documents[d].file_type = "bin" =>
                /\ \A ns \in Namespaces : \A c \in index'[ns] :
                      c.document_id # d
                /\ documents'[d].processing_status # "completed"
                /\ (r.pc = "ingest" /\ r \notin runs')
                      => /\ index' = index
                         /\ \E e \in {"Unsupported file type", "ingest error"} :
                               \E q \in runs' : /\ q.id = r.id
                                                /\ q.pc = "except"
                                                /\ q.error = e
                /\ (r.pc = "except" /\ (\A q \in runs' : q.id # r.id)
                      /\ response' \in {UploadResponse(d),
                                        [op |-> "retry", code |-> 200]})
                      => /\ documents'[d].processing_status = "failed"
                         /\ documents'[d].processing_error # None]_vars

\* C12 witness: a .bin document ended failed with the loader's error while
\* no namespace holds a vector of it, although another document of the same
\* tenant was stored.
C12_Witness ==
    \E d \in DocIds :
        /\ Exists(d)
        /\ documents[d].file_type = "bin"
        /\ Status(d) = "failed"
        /\ documents[d].processing_error = "Unsupported file type"
        /\ \A r \in runs : r.document_id # d
        /\ \A ns \in Namespaces : \A c \in index[ns] : c.document_id # d
        /\ index["user_" \o documents[d].user_id] # {}

\* C13: a retry started once the providers have stopped failing leads to the
\* document being completed with the chunk count of its stored source; and
\* whenever two documents with the same source are completed, by a first
\* ingestion or by a retry, their chunk counts are equal to that count.
C13_RetryEventuallyCompletes ==
    /\ \A d \in DocIds :
          (\E r \in runs : /\ r.document_id = d
                           /\ r.origin = "retry"
                           /\ r.pc = "mark_processing"
                           /\ Healthy)
             ~> (/\ Exists(d)
                 /\ Status(d) = "completed"
                 /\ documents[d].chunk_count = SplitCount(documents[d].text))
    /\ [](\A d1 \in DocIds, d2 \in DocIds :
            (/\ Exists(d1) /\ Status(d1) = "completed"
             /\ Exists(d2) /\ Status(d2) = "completed"
             /\ documents[d1].text = documents[d2].text)
               => /\ documents[d1].chunk_count = documents[d2].chunk_count
                  /\ documents[d1].chunk_count
                       = SplitCount(documents[d1].text))

\* C13 witness: a document whose ingestion failed was retried and is
\* completed with vectors of the retry's run, and its chunk count equals
\* that of another document with the same source that completed at once.
C13_Witness ==
    \E d1 \in DocIds, d2 \in DocIds :
        /\ d1 # d2 /\ Exists(d1) /\ Exists(d2)
        /\ Status(d1) = "completed" /\ Status(d2) = "completed"
        /\ documents[d1].text = documents[d2].text
        /\ documents[d1].chunk_count = documents[d2].chunk_count
        /\ documents[d2].chunk_count > 0
        /\ \A c \in index["user_" \o documents[d1].user_id] :
              c.document_id = d1 => c.run = d1
        /\ \E c \in index["user_" \o documents[d2].user_id] :
              c.document_id = d2 /\ c.run = MaxRuns

\* C14: a retry request for a soft-deleted document (is_active = FALSE)
\* starts no call of process_document.
C14_NoRetryOfDeleted ==
    [][\A t \in Tenants, d \in DocIds :
          (Exists(d) /\ ~documents[d].is_active /\ RetryDocumentProcessing(t, d))
             => UNCHANGED <<runs, started>>]_vars

\* C15: a query of a namespace holding no vector fails only if a handle of
\* the service is missing or the generation provider itself raises; it is
\* answered from a prompt with an empty context, by one call of the
\* generation provider, with the provider's text and, where sources were
\* asked for, an empty source list.
C15_EmptyNamespaceAnswered ==
    [][(/\ response'.op = "query"
        /\ UNCHANGED <<documents, index, runs, started>>
        /\ index[response'.namespace] = {})
          => /\ (svc'.pinecone_manager /\ svc'.llm_model)
                   => (response'.code = 200 \/ response'.llm_calls = 1)
             /\ response'.code = 200
                   => /\ response'.context_docs = <<>>
                      /\ response'.llm_calls = 1
                      /\ response'.answer
                           = [generated_for |->
                                [template |-> "medical assistant",
                                 context |-> <<>>]]
                      /\ response'.sources
                           = IF response'.return_sources THEN <<>> ELSE None]_vars

\* C15 witness: tenant b's query, sources requested, found b's namespace
\* empty (the retriever did not raise) and was answered with no source,
\* while the default namespace holds the book.
C15_Witness ==
    /\ response.op = "query"
    /\ response.code = 200
    /\ response.user_id = "b"
    /\ index[response.namespace] = {}
    /\ index[DefaultNamespace] # {}
    /\ ~response.retrieval_raised
    /\ response.return_sources
    /\ response.sources = <<>>
    /\ response.llm_calls = 1

\* C16: a query whose retrieval raised is never answered normally.
C16_RetrievalFailurePropagates ==
    (response.op = "query" /\ response.code = 200)
       => ~response.retrieval_raised

\* C17: an answered query called the generation provider exactly once, on
\* the prompt built from the chunks its retrieval returned, and its answer
\* is the provider's text for that prompt; no query calls the provider more
\* than once.
C17_OneGenerationAfterRetrieval ==
    response.op = "query"
       => /\ response.llm_calls \in {0, 1}
          /\ response.code = 200
               => /\ response.llm_calls = 1
                  /\ response.answer
                       = [generated_for |->
                            [template |-> "medical assistant",
                             context |-> response.context_docs]]

\* C17 witness: an answer generated from two retrieved chunks.
C17_Witness ==
    /\ response.op = "query"
    /\ response.code = 200
    /\ Len(response.context_docs) = 2
    /\ response.answer.generated_for.context = response.context_docs
    /\ response.llm_calls = 1

\* C18: an answered query that asked for sources holds one source per
\* retrieved chunk, in retrieval order, duplicates kept; one that did not
\* ask holds no source list.
C18_OneSourcePerChunk ==
    (response.op = "query" /\ response.code = 200)
       => IF response.return_sources
          THEN /\ Len(response.sources) = Len(response.context_docs)
               /\ \A i \in 1 .. Len(response.context_docs) :
                     response.sources[i] = response.context_docs[i].run
          ELSE response.sources = None

\* C18 witness: two chunks of one file were retrieved and the source list
\* names that file twice.
C18_Witness ==
    /\ response.op = "query"
    /\ response.code = 200
    /\ response.return_sources
    /\ Len(response.context_docs) = 2
    /\ Len(response.sources) = 2
    /\ response.sources[1] = response.sources[2]

\* C19: create_index creates the index when absent, changes nothing when an
\* index of the requested dimension exists, and fails with a dimension
\* mismatch error when the existing index has another dimension.
C19_EnsureIndexChecksDimension ==
    [][\A index_name \in IndexNames, dimension \in Dimensions :
          CreateIndex(index_name, dimension) =>
             /\ indexes[index_name] = [absent |-> TRUE]
                   => /\ indexes'[index_name] = [dimension |-> dimension]
                      /\ response'.error = None
             /\ indexes[index_name] = [dimension |-> dimension]
                   => indexes' = indexes /\ response'.error = None
             /\ indexes[index_name]
                   \notin {[absent |-> TRUE], [dimension |-> dimension]}
                   => indexes' = indexes /\ response'.error # None]_vars

\* C20: get_embedding_dimension fails for a model identifier its table does
\* not hold, and returns the table's value for one it holds.
C20_UnknownModelFails ==
    response.op = "get_embedding_dimension"
       => IF response.model_name \in KnownModels
          THEN response.error = None
          ELSE response.error # None

\* C21: a completed document whose text has L characters has the chunk
\* count 0 when L = 0, 1 when 0 < L <= ChunkOverlap, and otherwise
\* ceil((L - ChunkOverlap) / (ChunkSize - ChunkOverlap)) (3 for 1,200
\* characters), and its namespace holds that many chunks of the run.
C21_ChunkCountFormula ==
    \A d \in DocIds :
        (Exists(d) /\ Status(d) = "completed")
           => LET L == TextLength(documents[d].text)
                  stride == ChunkSize - ChunkOverlap
                  expected ==
                      IF L = 0 THEN 0
                      ELSE IF L <= ChunkOverlap THEN 1
                      ELSE (L - ChunkOverlap + stride - 1) \div stride
              IN  /\ documents[d].chunk_count = expected
                  /\ \E run \in RunIds :
                        Cardinality({c \in index[documents[d].vector_store_id] :
                                        c.document_id = d /\ c.run = run})
                           = expected

\* C22: when a call of process_document ends, after a success or after a
\* failure at whatever step, the temporary file it created is no longer on
\* disk (unless the operating system refused the unlink itself).
C22_TempFileReleased ==
    [][\A r \in runs, ok \in BOOLEAN :
          (MarkCompleted(r, TRUE, TRUE) \/ MarkFailed(r, ok, TRUE))
             => TempFileName(r.id) \notin tempfiles']_vars

\* The vectors in the index that the call `run` of process_document sent.
SentBy(run) == UNION {{c \in index[ns] : c.run = run} : ns \in Namespaces}

\* C23: the vectors a call of process_document sent all lie in one
\* namespace; no chunk was sent twice; the chunk numbered i went out in
\* upload call (i - 1) \div 100 + 1, so that every call carries at most 100
\* chunks, consecutive ones, in their order; and once the upload of the n
\* chunks has gone through, every chunk 1..n is there, in the namespace the
\* call resolved.
C23_BatchesCoverOnce ==
    \A run \in RunIds :
        LET sent == SentBy(run)
        IN  /\ \A ns1 \in Namespaces, ns2 \in Namespaces :
                  (\E c \in index[ns1] : c.run = run)
                     /\ (\E c \in index[ns2] : c.run = run) => ns1 = ns2
            /\ Cardinality({c.i : c \in sent}) = Cardinality(sent)
            /\ \A c \in sent : c.batch = (c.i - 1) \div 100 + 1
            /\ \A r \in runs :
                  (r.id = run /\ r.pc = "mark_completed")
                     => /\ {c.i : c \in sent} = 1 .. r.n
                        /\ sent \subseteq index[r.namespace]

\* C23 witness: an upload of 209 chunks has gone through in three calls,
\* the last of them carrying 9 chunks.
C23_Witness ==
    \E r \in runs :
        /\ r.pc = "mark_completed"
        /\ r.n = 209
        /\ {c.batch : c \in SentBy(r.id)} = {1, 2, 3}
        /\ Cardinality({c \in SentBy(r.id) : c.batch = 3}) = 9
        /\ Cardinality(SentBy(r.id)) = 209

\* C24: vectors of a call of process_document are stored only by its one
\* pass through the upload; when an upload call fails the pass stops, so
\* that what the call has stored is the full batches 1..k sent before the
\* failing one and nothing of the failing or of a later batch; the call
\* stores nothing afterwards, does not complete the document, and when
\* process_document returns, the document is failed with the error recorded.
C24_FailedBatchStopsUpload ==
    [][\A r \in runs :
          LET sent == SentBy(r.id)'
          IN  /\ sent # SentBy(r.id) => r.pc = "ingest"
              /\ (r.pc = "ingest"
                    /\ \E q \in runs' : q.id = r.id /\ q.pc = "except")
                    => \E k \in 0 .. 2 :
                          /\ {c.batch : c \in sent} = 1 .. k
                          /\ Cardinality(sent) = 100 * k
                          /\ \A c \in sent : c.i <= 100 * k
              /\ (r.pc = "except" /\ r \notin runs')
                    => /\ documents'[r.document_id].processing_status
                            # "completed"
                          \/ documents'[r.document_id] = documents[r.document_id]
                       /\ (/\ \A q \in runs' : q.id # r.id
                           /\ response' \in {UploadResponse(r.document_id),
                                             [op |-> "retry", code |-> 200]})
                             => /\ documents'[r.document_id].processing_status
                                     = "failed"
                                /\ documents'[r.document_id].processing_error
                                     = r.error]_vars

\* C24 witness: the third upload call of a run failed after two had gone
\* through; the run has returned, the document is failed, and the index
\* holds the run's first 200 chunks and no other of its chunks.
C24_Witness ==
    \E d \in DocIds, run \in RunIds :
        /\ Exists(d)
        /\ Status(d) = "failed"
        /\ documents[d].processing_error = "ingest error"
        /\ \A r \in runs : r.id # run
        /\ {c.i : c \in SentBy(run)} = 1 .. 200
        /\ \A c \in SentBy(run) : c.document_id = d

\* C25: no step of an upload, a retry or a soft delete removes a vector:
\* every namespace holds after the step all the vectors it held before.
C25_VectorsOnlyGrow ==
    [][\A ns \in Namespaces : index[ns] \subseteq index'[ns]]_vars

\* C25 witness: a soft-deleted document was completed by a retry, and the
\* namespace still holds the 100 chunks a failed earlier run left beside
\* the 209 of the retry.
C25_Witness ==
    \E d \in DocIds, run1 \in RunIds, run2 \in RunIds :
        /\ Exists(d)
        /\ Status(d) = "completed"
        /\ ~documents[d].is_active
        /\ run1 < run2
        /\ {c.i : c \in {v \in index["user_a"] :
                            v.run = run1 /\ v.document_id = d}} = 1 .. 100
        /\ {c.i : c \in {v \in index["user_a"] :
                            v.run = run2 /\ v.document_id = d}} = 1 .. 209

\* C26: the service is ready only when every step of an initialization has
\* succeeded (a failing step leaves is_ready() false); once it is ready no
\* query changes any of its fields or calls past the guard of initialize
\* again; and a query that finds the service not ready calls initialize
\* first, and calls it a second time when the first call failed, which
\* returned normally.
C26_InitializeRetriedUntilReady ==
    [][/\ svc'.initialized
            => /\ svc'.pinecone_manager /\ svc'.embedding_model
               /\ svc'.vector_store /\ svc'.llm_model
       /\ svc.initialized => svc' = svc
       /\ (response'.op = "query" /\ UNCHANGED <<documents, index, runs, started>>)
            => /\ svc.initialized => response'.initialize_calls = 0
               /\ ~svc.initialized => response'.initialize_calls \in {1, 2}
               /\ ~svc'.initialized => response'.initialize_calls = 2
               /\ response'.initialize_calls = 1 => svc'.initialized]_vars

\* C26 witness: a query found the service not ready, its first initialize
\* call failed, its second succeeded, and the query was answered.
C26_Witness ==
    /\ response.op = "query"
    /\ response.code = 200
    /\ response.initialize_calls = 2
    /\ svc.initialized

C28_ProcessedImpliesCompleted ==
    \A d \in DOMAIN documents :
        (documents[d] # NoDocument /\ documents[d].processed)
            => documents[d].processing_status = "completed"

\* C29: once a bootstrap script has populated a namespace, a query without a
\* tenant identity resolves to that namespace, and an answered query whose
\* retrieval did not raise has read the vectors the script wrote there.
C29_AnonymousReadsBootstrap ==
    [][\A ns \in {"free_users", ""} :
          (/\ index[ns] # {}
           /\ response'.op = "query"
           /\ UNCHANGED <<documents, index, runs, started>>
           /\ response'.user_id = None)
             => /\ response'.namespace = ns
                /\ (response'.code = 200 /\ ~response'.retrieval_raised)
                     => /\ response'.context_docs # <<>>
                        /\ \A i \in 1 .. Len(response'.context_docs) :
                              response'.context_docs[i] \in index[ns]]_vars

\* C30: a get, delete, retry or download request for a stored document of
\* another tenant is answered 404 and changes neither the documents (record
\* and stored content), nor the index, nor the ingestion runs; every run is
\* made for the owner of its document, and every vector of a document lies
\* in the namespace user_<owner-id>.
C30_OnlyOwnerActs ==
    [][/\ \A t \in Tenants, d \in DocIds :
            (/\ documents[d] # NoDocument
             /\ documents[d].user_id # t
             /\ \/ GetDocument(t, d)
                \/ DeleteDocument(t, d)
                \/ RetryDocumentProcessing(t, d)
                \/ \E ok \in BOOLEAN : DownloadDocument(t, d, ok))
               => /\ response'.code = 404
                  /\ UNCHANGED <<documents, index, runs, started, tempfiles>>
       /\ \A r \in runs' :
            /\ r.user_id = documents'[r.document_id].user_id
            /\ r.namespace \in {None, "user_" \o documents'[r.document_id].user_id}
       /\ \A ns \in Namespaces : \A c \in index'[ns] :
            c.document_id \in DocIds
               => ns = "user_" \o documents'[c.document_id].user_id]_vars

\* C30 witness: a tenant's download of another tenant's document was
\* answered 404 while a retry of the owner has re-ingested that document
\* into the owner's namespace.
C30_Witness ==
    /\ response.op = "download"
    /\ response.code = 404
    /\ documents[response.document_id].user_id # response.user_id
    /\ \E r \in runs :
          /\ r.origin = "retry"
          /\ r.document_id = response.document_id
          /\ r.pc = "mark_completed"
          /\ r.namespace = "user_" \o documents[r.document_id].user_id

====
